---- MODULE Spec2Model ----
(***************************************************************************)
(* Text-to-structure extraction engine of src/main.py: the exercise        *)
(* classifier, the detail parser, the day-block extractor, the duration    *)
(* estimator and the workout plan assembler.                               *)
(*                                                                         *)
(* Python str values are TLA+ strings; a character is a string of length   *)
(* one, obtained with SubSeq.  Regular expressions are modelled by the     *)
(* leftmost match Python's backtracking matcher returns.                   *)
(***************************************************************************)
EXTENDS Integers, Sequences, FiniteSets, TLC

VARIABLES
  name_words,    \* the words the classifier argument is made of
  name,          \* argument of the classifier calls
  valid,         \* result of _is_valid_exercise_name(name)
  category,      \* result of categorize_exercise(name)
  details_chunks,\* the lexical chunks the detail fragment is made of
  details_text,  \* argument of parse_exercise_details
  details,       \* its result <<sets, reps, weight>>
  exercises,     \* argument of estimate_workout_duration
  duration,      \* its result
  plan_lines,    \* the lines the reply text is made of
  ai_response,   \* argument of parse_workout_plan_from_text
  pc,            \* position of parse_workout_plan_from_text
  pattern_idx,   \* index into day_patterns of the running scan
  scan_pos,      \* where re.finditer resumes in ai_response
  workouts,      \* the list being built and returned
  categorized,   \* argument of determine_primary_category
  primary_category, \* its result
  candidates,    \* found_exercises as lines 529-540 find it
  unique_pos,    \* index of the candidate the loop of line 532 is at
  seen_lower,          \* its set of lower-cased names
  unique_list,   \* its list unique_exercises
  returned,      \* the list line 540 returns
  flat_lines,    \* the lines the text is made of
  flat_text,     \* argument of extract_exercises_from_text
  found_exercises, \* its local list of candidates
  flat_pc,       \* its position
  flat_result,   \* its result
  run_text,      \* per invocation: argument of extract_exercises_from_text
  run_pc,        \* per invocation: position
  run_found,     \* per invocation: the local found_exercises
  run_result,    \* per invocation: result
  fitness_indicators, \* the module-level list FITNESS_INDICATORS
  request_body,  \* the JSON object request.get_json() returns
  endpoint_pc,   \* position of the handler of /create-workout-plan
  workout_data,  \* its local dict of that name
  response_status, \* the HTTP status it answers with, 0 while none
  chat_call      \* the user message and create_plan of the chat-completion call

vars == <<name_words, name, valid, category, details_chunks, details_text, details,
          exercises, duration, plan_lines, ai_response, pc, pattern_idx, scan_pos, workouts,
          categorized, primary_category,
          candidates, unique_pos, seen_lower, unique_list, returned,
          flat_lines, flat_text, found_exercises, flat_pc, flat_result,
          run_text, run_pc, run_found, run_result, fitness_indicators,
          request_body, endpoint_pc, workout_data, response_status, chat_call>>

\* a call that has not returned holds NoResult, one that has holds Result(value)
NoResult == <<>>
Result(v) == <<v>>

----------------------------------------------------------------------------
(* Characters and Python str methods *)

UpperLetters == "ABCDEFGHIJKLMNOPQRSTUVWXYZ"
LowerLetters == "abcdefghijklmnopqrstuvwxyz"
DigitChars == "0123456789"

CharSet(s) == {SubSeq(s, i, i) : i \in 1..Len(s)}

UpperSet == CharSet(UpperLetters)
LowerSet == CharSet(LowerLetters)
DigitSet == CharSet(DigitChars)
SpaceSet == {" ", "\n", "\t", "\r", "\f"}
WordSet == UpperSet \cup LowerSet \cup DigitSet \cup {"_"}

ToLower == [c \in UpperSet |->
              LET i == CHOOSE k \in 1..26 : SubSeq(UpperLetters, k, k) = c
              IN SubSeq(LowerLetters, i, i)]

ToUpper == [c \in LowerSet |->
              LET i == CHOOSE k \in 1..26 : SubSeq(LowerLetters, k, k) = c
              IN SubSeq(UpperLetters, i, i)]

Char(s, i) == SubSeq(s, i, i)

IsDigit(s, i) == i >= 1 /\ i <= Len(s) /\ Char(s, i) \in DigitSet
IsSpace(s, i) == i >= 1 /\ i <= Len(s) /\ Char(s, i) \in SpaceSet
IsWord(s, i) == i >= 1 /\ i <= Len(s) /\ Char(s, i) \in WordSet

RECURSIVE lower(_)
lower(s) ==
  IF s = "" THEN ""
  ELSE (IF Head(s) \in UpperSet THEN ToLower[Head(s)] ELSE Head(s)) \o lower(Tail(s))

RECURSIVE upper(_)
upper(s) ==
  IF s = "" THEN ""
  ELSE (IF Head(s) \in LowerSet THEN ToUpper[Head(s)] ELSE Head(s)) \o upper(Tail(s))

\* s[i:].startswith(t), positions from 1
StartsAt(s, i, t) == i >= 1 /\ i + Len(t) - 1 <= Len(s) /\ SubSeq(s, i, i + Len(t) - 1) = t

\* the same under re.IGNORECASE (t is written in lower case)
StartsAtI(s, i, t) ==
  i >= 1 /\ i + Len(t) - 1 <= Len(s) /\ lower(SubSeq(s, i, i + Len(t) - 1)) = t

\* t in s
Contains(s, t) == \E i \in 1..(Len(s) - Len(t) + 1) : StartsAt(s, i, t)

\* any(word in s for word in terms)
AnyIn(s, terms) == \E t \in terms : Contains(s, t)

\* first position >= i that holds no whitespace: where a greedy \s* stops
RECURSIVE SkipSpaces(_, _)
SkipSpaces(s, i) == IF IsSpace(s, i) THEN SkipSpaces(s, i + 1) ELSE i

\* first position >= i that holds no digit: where a greedy \d+ stops
SkipDigits(s, i) ==
  IF IsDigit(s, i)
  THEN CHOOSE j \in (i + 1)..(Len(s) + 1) :
         ~IsDigit(s, j) /\ \A k \in (i + 1)..(j - 1) : IsDigit(s, k)
  ELSE i

\* s.strip()
RECURSIVE rstrip(_)
rstrip(s) == IF s # "" /\ IsSpace(s, Len(s)) THEN rstrip(SubSeq(s, 1, Len(s) - 1)) ELSE s

strip(s) == LET i == SkipSpaces(s, 1) IN rstrip(SubSeq(s, i, Len(s)))

\* s.split(): the maximal runs of non-whitespace characters
RECURSIVE SkipNonSpaces(_, _)
SkipNonSpaces(s, i) ==
  IF i <= Len(s) /\ ~IsSpace(s, i) THEN SkipNonSpaces(s, i + 1) ELSE i

RECURSIVE SplitFrom(_, _)
SplitFrom(s, i) ==
  LET b == SkipSpaces(s, i)
      e == SkipNonSpaces(s, b)
  IN IF b > Len(s) THEN <<>>
     ELSE <<SubSeq(s, b, e - 1)>> \o SplitFrom(s, e)

split(s) == SplitFrom(s, 1)

\* s.split('\n')
RECURSIVE SplitLinesFrom(_, _, _)
SplitLinesFrom(s, b, i) ==
  IF i > Len(s) THEN <<SubSeq(s, b, Len(s))>>
  ELSE IF Char(s, i) = "\n"
       THEN <<SubSeq(s, b, i - 1)>> \o SplitLinesFrom(s, i + 1, i + 1)
       ELSE SplitLinesFrom(s, b, i + 1)

split_lines(s) == SplitLinesFrom(s, 1, 1)

Min(a, b) == IF a < b THEN a ELSE b
Max(a, b) == IF a > b THEN a ELSE b

\* The longest digit string int() converts: CPython's default
\* sys.int_max_str_digits (3.11 and later).  int() raises ValueError on a
\* longer one.
int_max_str_digits == 4300

int_raises(s) == Len(s) > int_max_str_digits

\* int(s) for a string of decimal digits that int() converts
DigitValue(c) == CHOOSE d \in 0..9 : SubSeq(DigitChars, d + 1, d + 1) = c

RECURSIVE int(_)
int(s) ==
  IF s = "" THEN 0
  ELSE 10 * int(SubSeq(s, 1, Len(s) - 1)) + DigitValue(Char(s, Len(s)))

----------------------------------------------------------------------------
(* Exercise classifier *)

FITNESS_INDICATORS ==
  {"exercise", "workout", "stretch", "movement", "pose", "position", "form",
   "technique", "drill", "routine", "training", "bicep", "tricep", "chest",
   "back", "shoulder", "leg", "core", "abs", "glute", "cardio", "strength",
   "flexibility", "mobility", "yoga", "pilates", "calisthenics", "bodyweight",
   "dumbbell", "barbell", "kettlebell", "resistance", "band", "machine"}

common_words ==
  {"and", "or", "but", "the", "a", "an", "is", "are", "was", "were", "will",
   "would", "should", "could"}

\* line 556 taken as if it read FITNESS_INDICATORS.extend([...])
indicators_after_extend(indicators) == indicators \cup {"push", "pull", "lift"}

\* line 556: what a call of _is_valid_exercise_name leaves in the module-level
\* list.  FITNESS_INDICATORS + [...] builds a new list.
indicators_after_call(indicators) == indicators

fitness_terms ==
  FITNESS_INDICATORS \cup
  {"push", "pull", "lift", "raise", "lower", "bend", "twist", "rotate", "hold",
   "press", "curl", "extension", "flexion", "crunch", "fly", "row",
   "squat", "lunge", "plank", "bridge", "stretch", "reach"}

\* re.search(r'\w+\s+(t1|t2|...)', s)
SearchWordThenTerm(s, terms) ==
  \E i \in 1..Len(s) :
    /\ IsWord(s, i)
    /\ IsSpace(s, i + 1)
    /\ \E t \in terms : StartsAt(s, SkipSpaces(s, i + 1), t)

\* re.search(r'(t1|t2|...)\s+\w+', s)
SearchTermThenWord(s, terms) ==
  \E i \in 1..Len(s) : \E t \in terms :
    /\ StartsAt(s, i, t)
    /\ IsSpace(s, i + Len(t))
    /\ IsWord(s, SkipSpaces(s, i + Len(t)))

exercise_patterns(name_lower) ==
  \/ SearchWordThenTerm(name_lower, {"press", "curl", "raise", "extension", "stretch", "pose"})
  \/ SearchTermThenWord(name_lower, {"morning", "evening", "daily", "basic", "simple", "easy"})
  \/ SearchWordThenTerm(name_lower, {"workout", "routine", "exercise"})
  \/ SearchTermThenWord(name_lower, {"bicep", "tricep", "chest", "back", "shoulder", "leg", "core", "ab"})

\* _is_valid_exercise_name with the lower length bound off by one (len <= 3
\* rejected): C8 tells the two apart on a three-letter name such as "Row"
_is_valid_exercise_name_Short(n) ==
  IF n = "" \/ Len(n) <= 3 \/ Len(n) > 50 THEN FALSE
  ELSE IF \A i \in 1..Len(split(lower(n))) : split(lower(n))[i] \in common_words THEN FALSE
       ELSE AnyIn(lower(n), fitness_terms) \/ exercise_patterns(lower(n))

_is_valid_exercise_name(n) ==
  IF n = "" \/ Len(n) < 3 \/ Len(n) > 50 THEN FALSE
  ELSE LET words == split(lower(n))
       IN IF \A i \in 1..Len(words) : words[i] \in common_words THEN FALSE
          ELSE LET name_lower == lower(n)
                   has_fitness_term == AnyIn(name_lower, fitness_terms)
                   has_pattern == exercise_patterns(name_lower)
               IN has_fitness_term \/ has_pattern

\* categorize_exercise with the back test moved ahead of the chest test: C5
\* tells the two apart on a name that holds a chest term and a back term
categorize_exercise_BackFirst(exercise_name) ==
  IF AnyIn(lower(exercise_name), {"row", "pull", "lat", "back"}) THEN "back"
  ELSE IF AnyIn(lower(exercise_name), {"press", "push", "chest", "bench", "fly", "dip"}) THEN "chest"
  ELSE IF AnyIn(lower(exercise_name), {"curl", "bicep", "chin"}) THEN "biceps"
  ELSE IF AnyIn(lower(exercise_name), {"tricep", "extension", "dip"}) THEN "triceps"
  ELSE IF AnyIn(lower(exercise_name), {"shoulder", "lateral", "overhead", "military"}) THEN "shoulders"
  ELSE IF AnyIn(lower(exercise_name), {"squat", "lunge", "leg", "quad", "hamstring"}) THEN "legs"
  ELSE IF AnyIn(lower(exercise_name), {"plank", "crunch", "core", "ab", "sit"}) THEN "core"
  ELSE IF AnyIn(lower(exercise_name), {"run", "jog", "cardio", "bike", "treadmill"}) THEN "cardio"
  ELSE "other"

categorize_exercise(exercise_name) ==
  LET exercise_lower == lower(exercise_name)
  IN IF AnyIn(exercise_lower, {"press", "push", "chest", "bench", "fly", "dip"}) THEN "chest"
     ELSE IF AnyIn(exercise_lower, {"curl", "bicep", "chin"}) THEN "biceps"
     ELSE IF AnyIn(exercise_lower, {"tricep", "extension", "dip"}) THEN "triceps"
     ELSE IF AnyIn(exercise_lower, {"row", "pull", "lat", "back"}) THEN "back"
     ELSE IF AnyIn(exercise_lower, {"shoulder", "lateral", "overhead", "military"}) THEN "shoulders"
     ELSE IF AnyIn(exercise_lower, {"squat", "lunge", "leg", "quad", "hamstring"}) THEN "legs"
     ELSE IF AnyIn(exercise_lower, {"plank", "crunch", "core", "ab", "sit"}) THEN "core"
     ELSE IF AnyIn(exercise_lower, {"run", "jog", "cardio", "bike", "treadmill"}) THEN "cardio"
     ELSE "other"

----------------------------------------------------------------------------
(* Detail parser *)

\* the least element of a set of positions, 0 for the empty set: where
\* re.search, which tries the start positions from left to right, matches
Leftmost(hits) == IF hits = {} THEN 0 ELSE CHOOSE i \in hits : \A k \in hits : i <= k

\* leftmost start of a match of (\d+)\s*(?:t1|t2|...) under re.IGNORECASE, 0 if none
SearchIntThenTerm(s, terms) ==
  Leftmost({i \in 1..Len(s) :
              /\ IsDigit(s, i)
              /\ \E t \in terms : StartsAtI(s, SkipSpaces(s, SkipDigits(s, i)), t)})

\* group(1) of a match that starts with (\d+) at i
IntGroup(s, i) == SubSeq(s, i, SkipDigits(s, i) - 1)

\* where \d+\s*x\s* matched at i ends, given that it matches
AfterX(s, i) == SkipSpaces(s, SkipSpaces(s, SkipDigits(s, i)) + 1)

\* leftmost start of a match of \d+\s*x\s*(\d+), 0 if none
SearchFormat(s) ==
  Leftmost({i \in 1..Len(s) :
              /\ IsDigit(s, i)
              /\ StartsAtI(s, SkipSpaces(s, SkipDigits(s, i)), "x")
              /\ IsDigit(s, AfterX(s, i))})

\* end (exclusive) of \d+(?:\.\d+)? matched greedily at i
NumberEnd(s, i) ==
  IF StartsAt(s, SkipDigits(s, i), ".") /\ IsDigit(s, SkipDigits(s, i) + 1)
  THEN SkipDigits(s, SkipDigits(s, i) + 1)
  ELSE SkipDigits(s, i)

\* \s*(?:kg|lbs?|pounds?) matched at e
UnitAfter(s, e) == \E u \in {"kg", "lb", "pound"} : StartsAtI(s, SkipSpaces(s, e), u)

\* end (exclusive) of group(1) of (\d+(?:\.\d+)?)\s*(?:kg|lbs?|pounds?) matched at i,
\* 0 if it does not match there: the fraction is tried first, then given up
WeightMatchEnd(s, i) ==
  IF ~IsDigit(s, i) THEN 0
  ELSE IF UnitAfter(s, NumberEnd(s, i)) THEN NumberEnd(s, i)
  ELSE IF UnitAfter(s, SkipDigits(s, i)) THEN SkipDigits(s, i)
  ELSE 0

\* leftmost start of a weight match, 0 if none
SearchWeight(s) == Leftmost({i \in 1..Len(s) : WeightMatchEnd(s, i) # 0})

\* re.search(r'lbs?|pounds?', s, re.IGNORECASE)
SearchPounds(s) == \E i \in 1..Len(s) : StartsAtI(s, i, "lb") \/ StartsAtI(s, i, "pound")

\* A float is kept as an exact decimal [m, e] = m / 10^e with no trailing
\* fractional zero, so that equal numbers are equal records.
RECURSIVE decimal(_, _)
decimal(m, e) == IF e > 0 /\ m % 10 = 0 THEN decimal(m \div 10, e - 1) ELSE [m |-> m, e |-> e]

\* float(g) for g of the form digits or digits.digits
float(g) ==
  decimal(int(SubSeq(g, 1, SkipDigits(g, 1) - 1) \o SubSeq(g, SkipDigits(g, 1) + 1, Len(g))),
          Len(g) - Min(SkipDigits(g, 1), Len(g)))

\* weight * 0.453592
pounds_to_kg(weight) == decimal(weight.m * 453592, weight.e + 6)

\* lines 219-221
sets_of(text, sets_match) ==
  IF sets_match # 0 THEN int(IntGroup(text, sets_match)) ELSE 3

\* reps_of without the NxM fallback of lines 224-228: C6 tells the two apart on "4x8"
reps_of_Explicit(text, reps_match) ==
  IF reps_match = 0 THEN 10 ELSE int(IntGroup(text, reps_match))

\* lines 222-228
reps_of(text, reps_match) ==
  IF reps_match = 0
  THEN IF SearchFormat(text) # 0
       THEN int(IntGroup(text, AfterX(text, SearchFormat(text))))
       ELSE 10
  ELSE int(IntGroup(text, reps_match))

\* lines 229-233
weight_of(text, weight_match) ==
  IF weight_match = 0 THEN decimal(0, 0)
  ELSE IF SearchPounds(text)
       THEN pounds_to_kg(float(SubSeq(text, weight_match, WeightMatchEnd(text, weight_match) - 1)))
       ELSE float(SubSeq(text, weight_match, WeightMatchEnd(text, weight_match) - 1))

\* lines 221, 226, 228: one of the int() calls raises.  No digit string of a
\* text is longer than the text, which the first conjunct uses.
parse_exercise_details_raises(text) ==
  /\ Len(text) > int_max_str_digits
  /\ \/ /\ SearchIntThenTerm(text, {"set", "x"}) # 0
        /\ int_raises(IntGroup(text, SearchIntThenTerm(text, {"set", "x"})))
     \/ /\ SearchIntThenTerm(text, {"rep"}) # 0
        /\ int_raises(IntGroup(text, SearchIntThenTerm(text, {"rep"})))
     \/ /\ SearchIntThenTerm(text, {"rep"}) = 0
        /\ SearchFormat(text) # 0
        /\ int_raises(IntGroup(text, AfterX(text, SearchFormat(text))))

parse_exercise_details(text) ==
  IF text = "" THEN <<3, 10, decimal(0, 0)>>
  ELSE <<sets_of(text, SearchIntThenTerm(text, {"set", "x"})),
         reps_of(text, SearchIntThenTerm(text, {"rep"})),
         weight_of(text, SearchWeight(text))>>

----------------------------------------------------------------------------
(* Duration estimator and primary category *)

\* lines 54-62 for one exercise, in half minutes (sets * 2.5 is not an integer)
time_of(exercise_name, sets) ==
  IF AnyIn(exercise_name, {"press", "squat", "deadlift", "pull-up"}) THEN sets * 6
  ELSE IF AnyIn(exercise_name, {"curl", "raise", "extension", "fly"}) THEN sets * 4
  ELSE sets * 5

RECURSIVE exercise_time(_)
exercise_time(exs) ==
  IF exs = <<>> THEN 0
  ELSE time_of(lower(Head(exs).name), Head(exs).sets) + exercise_time(Tail(exs))

\* The definition of lines 40-65, in half minutes.  The module binds the name
\* again at line 283, so no call reaches this one.
estimate_workout_duration_1(exs) ==
  IF exs = <<>> THEN 120
  ELSE Min(Max(30 + exercise_time(exs), 60), 240)

\* The definition of lines 283-287, in minutes: the one every call reaches.
estimate_workout_duration(exs) == Min(15 + Len(exs) * 8, 120)

\* the keys of category_counts in insertion order
RECURSIVE first_seen(_, _)
first_seen(cats, seen) ==
  IF cats = <<>> THEN <<>>
  ELSE IF Head(cats) \in seen THEN first_seen(Tail(cats), seen)
       ELSE <<Head(cats)>> \o first_seen(Tail(cats), seen \cup {Head(cats)})

\* category_counts[c]
count_of(categories, c) == Cardinality({i \in 1..Len(categories) : categories[i] = c})

\* max_key with the last of the keys of highest count in place of the first:
\* C12 tells the two apart on a list whose two categories are level
max_key_Last(categories, keys) ==
  keys[CHOOSE i \in 1..Len(keys) :
         /\ \A k \in 1..Len(keys) : count_of(categories, keys[k]) <= count_of(categories, keys[i])
         /\ \A k \in (i + 1)..Len(keys) : count_of(categories, keys[k]) < count_of(categories, keys[i])]

\* max(category_counts.items(), key=lambda x: x[1])[0]: the first key, in
\* insertion order, whose count no other key exceeds
max_key(categories, keys) ==
  keys[CHOOSE i \in 1..Len(keys) :
         /\ \A k \in 1..Len(keys) : count_of(categories, keys[k]) <= count_of(categories, keys[i])
         /\ \A k \in 1..(i - 1) : count_of(categories, keys[k]) < count_of(categories, keys[i])]

\* isinstance(ex, dict) and 'category' in ex
has_category(ex) == "category" \in DOMAIN ex

with_category(exs) == SelectSeq(exs, has_category)

\* lines 265-272
categories_of(exs) == [i \in 1..Len(with_category(exs)) |-> with_category(exs)[i].category]

determine_primary_category(exs) ==
  IF exs = <<>> THEN "other"
  ELSE IF categories_of(exs) = <<>> THEN "other"
  ELSE max_key(categories_of(exs), first_seen(categories_of(exs), {}))

\* str.title() of a lower-case word
title(s) == IF s = "" THEN "" ELSE upper(Head(s)) \o Tail(s)

----------------------------------------------------------------------------
(* Day-block extractor *)

\* [-•*]: U+2022 has no TLA+ string, and no modelled text contains it
BulletSet == {"-", "*"}

\* first position >= i that holds c, Len(s) + 1 if none
RECURSIVE Find(_, _, _)
Find(s, i, c) == IF i > Len(s) \/ Char(s, i) = c THEN i ELSE Find(s, i + 1, c)

NoMatch == [matched |-> FALSE]

\* \*\*([^*]+?)\*\*\s*: matched at q: r is where the closing ** starts.  The
\* record holds group(1) and the position of the ':'.
BoldNameFrom(line, q, r) ==
  IF /\ StartsAt(line, q, "**")
     /\ r >= q + 3
     /\ StartsAt(line, r, "**")
     /\ StartsAt(line, SkipSpaces(line, r + 2), ":")
  THEN [matched |-> TRUE, group1 |-> SubSeq(line, q + 2, r - 1),
        colon |-> SkipSpaces(line, r + 2)]
  ELSE NoMatch

\* [-•*]\s*\*\*([^*]+?)\*\*\s*: matched at p
BoldNameAt(line, p) ==
  IF Char(line, p) \in BulletSet
  THEN BoldNameFrom(line, SkipSpaces(line, p + 1), Find(line, SkipSpaces(line, p + 1) + 2, "*"))
  ELSE NoMatch

\* ([^-\n]+)(?:\s*-\s*(.+))? after the ':' of b, dash being the first '-' that
\* follows it.  group(2) and group(3) are given up to surrounding whitespace,
\* which the caller strips; group3 = "" stands for None and for a blank group
\* alike, as line 164 treats them alike.
DetailsAndInstructions(line, b, dash) ==
  IF b.matched /\ dash >= b.colon + 2
  THEN [matched |-> TRUE, group1 |-> b.group1,
        group2 |-> SubSeq(line, b.colon + 1, dash - 1),
        groups |-> 3,
        group3 |-> IF dash < Len(line) THEN SubSeq(line, dash + 1, Len(line)) ELSE ""]
  ELSE NoMatch

\* patterns[0] matched at p
Pattern1At(line, p) ==
  IF BoldNameAt(line, p).matched
  THEN DetailsAndInstructions(line, BoldNameAt(line, p),
                              Find(line, BoldNameAt(line, p).colon + 1, "-"))
  ELSE NoMatch

\* :\s*(.+) at the ':' of a name match b
DetailsAfter(line, b) ==
  IF b.matched /\ b.colon < Len(line)
  THEN [matched |-> TRUE, group1 |-> b.group1,
        group2 |-> SubSeq(line, b.colon + 1, Len(line)),
        groups |-> 2, group3 |-> ""]
  ELSE NoMatch

\* patterns[1] matched at p
Pattern2At(line, p) == DetailsAfter(line, BoldNameAt(line, p))

\* [-•*]\s*([^:]+?)\s*: matched at p, colon being the first ':' after p
PlainNameAt(line, p, colon) ==
  IF Char(line, p) \in BulletSet /\ colon >= p + 2 /\ colon <= Len(line)
  THEN [matched |-> TRUE, group1 |-> SubSeq(line, p + 1, colon - 1), colon |-> colon]
  ELSE NoMatch

\* patterns[2] matched at p
Pattern3At(line, p) == DetailsAfter(line, PlainNameAt(line, p, Find(line, p + 1, ":")))

PatternAt(k, line, p) ==
  IF k = 1 THEN Pattern1At(line, p)
  ELSE IF k = 2 THEN Pattern2At(line, p)
  ELSE Pattern3At(line, p)

\* re.search(patterns[k-1], line): the match at the leftmost start, 0 if none
search(k, line) == Leftmost({p \in 1..Len(line) : PatternAt(k, line, p).matched})

\* for pattern in patterns: ... break at the first that matches
exercise_match(line) ==
  IF search(1, line) # 0 THEN Pattern1At(line, search(1, line))
  ELSE IF search(2, line) # 0 THEN Pattern2At(line, search(2, line))
  ELSE IF search(3, line) # 0 THEN Pattern3At(line, search(3, line))
  ELSE NoMatch

\* re.sub(r'\*+', '', s)
RECURSIVE remove_stars(_)
remove_stars(s) ==
  IF s = "" THEN ""
  ELSE (IF Head(s) = "*" THEN "" ELSE Head(s)) \o remove_stars(Tail(s))

\* re.sub(r'^\d+\.\s*', '', s)
remove_numbering(s) ==
  IF SkipDigits(s, 1) > 1 /\ StartsAt(s, SkipDigits(s, 1), ".")
  THEN SubSeq(s, SkipSpaces(s, SkipDigits(s, 1) + 1), Len(s))
  ELSE s

\* lines 145-150
clean_exercise_name(group1) ==
  strip(remove_numbering(strip(remove_stars(strip(group1)))))

\* lines 120-125
skipped_line(line) ==
  \/ line = ""
  \/ StartsAt(line, 1, "Rest") \/ StartsAt(line, 1, "Day off") \/ StartsAt(line, 1, "Recovery")
  \/ upper(line) \in {"WARM-UP", "WORKOUT", "COOL-DOWN"}

\* lines 155-165: the dict, with the key 'instructions' only for a non-blank group(3)
exercise_dict(exercise_name, d, instructions) ==
  IF instructions # ""
  THEN [name |-> exercise_name, sets |-> d[1], reps |-> d[2], weight |-> d[3],
        category |-> categorize_exercise(exercise_name), instructions |-> instructions]
  ELSE [name |-> exercise_name, sets |-> d[1], reps |-> d[2], weight |-> d[3],
        category |-> categorize_exercise(exercise_name)]

\* lines 152-167: what a match with the cleaned name appends to exercises
exercise_of_name(exercise_name, m) ==
  IF _is_valid_exercise_name(exercise_name)
  THEN <<exercise_dict(exercise_name, parse_exercise_details(strip(m.group2)),
                       IF m.groups >= 3 THEN strip(m.group3) ELSE "")>>
  ELSE <<>>

\* lines 144-167
exercise_of_match(m) ==
  IF m.matched THEN exercise_of_name(clean_exercise_name(m.group1), m) ELSE <<>>

\* lines 119-167: what one line appends to exercises
exercise_of_stripped(line) ==
  IF skipped_line(line) THEN <<>> ELSE exercise_of_match(exercise_match(line))

exercise_of_line(line) == exercise_of_stripped(strip(line))

\* exercises_of_lines with each exercise put at the front of the list instead
\* of appended: C10 tells the two apart on a block of two exercises
RECURSIVE exercises_of_lines_Reversed(_)
exercises_of_lines_Reversed(lines) ==
  IF lines = <<>> THEN <<>>
  ELSE exercises_of_lines_Reversed(Tail(lines)) \o exercise_of_line(Head(lines))

RECURSIVE exercises_of_lines(_)
exercises_of_lines(lines) ==
  IF lines = <<>> THEN <<>>
  ELSE exercise_of_line(Head(lines)) \o exercises_of_lines(Tail(lines))

extract_exercises_from_day_text(day_text) == exercises_of_lines(split_lines(day_text))

\* line 153 raises on the match m of a line
exercise_of_match_raises(m) ==
  /\ m.matched
  /\ _is_valid_exercise_name(clean_exercise_name(m.group1))
  /\ parse_exercise_details_raises(strip(m.group2))

exercise_of_line_raises(line) ==
  /\ Len(line) > int_max_str_digits
  /\ ~skipped_line(strip(line))
  /\ exercise_of_match_raises(exercise_match(strip(line)))

\* extract_exercises_from_day_text(day_text) raises: the loop reaches a line that raises
extract_exercises_from_day_text_raises(day_text) ==
  /\ Len(day_text) > int_max_str_digits
  /\ \E i \in 1..Len(split_lines(day_text)) : exercise_of_line_raises(split_lines(day_text)[i])

----------------------------------------------------------------------------
(* Workout plan assembler: parse_workout_plan_from_text *)

Weekdays == <<"monday", "tuesday", "wednesday", "thursday", "friday", "saturday", "sunday">>

\* day_mapping.get(day_name.lower(), 1)
day_mapping(day_name) ==
  IF \E d \in 1..7 : Weekdays[d] = lower(day_name)
  THEN CHOOSE d \in 1..7 : Weekdays[d] = lower(day_name)
  ELSE 1

\* Day\s+\d+ matched at m
DayHeaderAt(s, m) ==
  StartsAtI(s, m, "day") /\ IsSpace(s, m + 3) /\ IsDigit(s, SkipSpaces(s, m + 3))

\* \n\s*Day\s+\d+ matched at k
DayAhead(s, k) == StartsAt(s, k, "\n") /\ DayHeaderAt(s, SkipSpaces(s, k + 1))

\* \w+day matched at n
RECURSIVE WordThenDay(_, _)
WordThenDay(s, n) == IsWord(s, n) /\ (StartsAtI(s, n + 1, "day") \/ WordThenDay(s, n + 1))

\* \n\s*\w+day matched at k
WordDayAhead(s, k) == StartsAt(s, k, "\n") /\ WordThenDay(s, SkipSpaces(s, k + 1))

\* \n\s*(?:Mon|Tues|Wednes|Thurs|Fri|Satur|Sun)day matched at k
WeekdayAhead(s, k) ==
  /\ StartsAt(s, k, "\n")
  /\ \E d \in 1..7 : StartsAtI(s, SkipSpaces(s, k + 1), Weekdays[d])

\* the lookahead that ends group(2) of day_patterns[idx-1], tested at k
BlockEnds(idx, s, k) ==
  \/ k > Len(s)
  \/ IF idx = 1 THEN DayAhead(s, k) \/ WordDayAhead(s, k)
     ELSE WeekdayAhead(s, k) \/ DayAhead(s, k)

\* ContentEnd with a greedy (.*) in place of the lazy (.*?): the content runs
\* to the end of the text.  C1 tells the two apart on a text of two blocks.
ContentEnd_Greedy(idx, s, k) == Len(s) + 1

\* where the lazy (.*?) stops: the first position from k on at which the lookahead holds
RECURSIVE ContentEnd(_, _, _)
ContentEnd(idx, s, k) == IF BlockEnds(idx, s, k) THEN k ELSE ContentEnd(idx, s, k + 1)

\* [:\-]\s*(.*?)(?=...) matched at c, after a header whose group(1) is g
BlockFrom(idx, s, g, c, start) ==
  IF StartsAt(s, c, ":") \/ StartsAt(s, c, "-")
  THEN [matched |-> TRUE, group1 |-> g,
        group2 |-> SubSeq(s, start, ContentEnd(idx, s, start) - 1),
        end |-> ContentEnd(idx, s, start)]
  ELSE NoMatch

\* (\d+)[:\-]... matched at b
NumberedBlockFrom(s, b, c) == BlockFrom(1, s, SubSeq(s, b, c - 1), c, SkipSpaces(s, c + 1))

\* day_patterns[0], under re.IGNORECASE | re.DOTALL, matched at i
DayPatternAt(s, i) ==
  IF DayHeaderAt(s, i)
  THEN NumberedBlockFrom(s, SkipSpaces(s, i + 3), SkipDigits(s, SkipSpaces(s, i + 3)))
  ELSE NoMatch

\* the weekday name matched at i, 0 if none
WeekdayAt(s, i) ==
  IF \E d \in 1..7 : StartsAtI(s, i, Weekdays[d])
  THEN CHOOSE d \in 1..7 : StartsAtI(s, i, Weekdays[d])
  ELSE 0

NamedBlockFrom(s, i, c) == BlockFrom(2, s, SubSeq(s, i, c - 1), c, SkipSpaces(s, c + 1))

\* day_patterns[1] matched at i
WeekdayPatternAt(s, i) ==
  IF WeekdayAt(s, i) # 0
  THEN NamedBlockFrom(s, i, i + Len(Weekdays[WeekdayAt(s, i)]))
  ELSE NoMatch

DayMatchAt(idx, s, i) == IF idx = 1 THEN DayPatternAt(s, i) ELSE WeekdayPatternAt(s, i)

\* the start of the next match re.finditer(day_patterns[idx-1], s) yields when
\* it resumes at position from, 0 if there is none
next_match(idx, s, from) ==
  Leftmost({i \in from..Len(s) : DayMatchAt(idx, s, i).matched})

\* day_number_of with the number of a "Day N" header forced into 1..7: C9
\* tells the two apart on "Day 10"
day_number_of_Clamped(idx, group1) ==
  IF idx = 1 THEN Min(Max(int(group1), 1), 7) ELSE day_mapping(group1)

\* lines 80-93: pattern.startswith('Day') holds of day_patterns[0] only
day_number_of(idx, group1) == IF idx = 1 THEN int(group1) ELSE day_mapping(group1)

\* lines 99-105
workout_dict(day_number, exs, dur, primary) ==
  [day |-> day_number,
   name |-> "Day " \o ToString(day_number) \o " - " \o title(primary),
   exercises |-> exs,
   duration |-> dur,
   category |-> primary]

\* append_workout without the test of line 98: C4 tells the two apart on a
\* block that yields no exercise
append_workout_Unguarded(ws, day_number, exs) ==
  Append(ws, workout_dict(day_number, exs, estimate_workout_duration(exs),
                          determine_primary_category(exs)))

\* lines 96-106
append_workout(ws, day_number, exs) ==
  IF exs # <<>>
  THEN Append(ws, workout_dict(day_number, exs, estimate_workout_duration(exs),
                               determine_primary_category(exs)))
  ELSE ws

\* lines 85 and 95: the loop body raises on match m
loop_body_raises(idx, m) ==
  \/ idx = 1 /\ int_raises(m.group1)
  \/ extract_exercises_from_day_text_raises(m.group2)

\* lines 80-106: the list workouts after the loop body ran on match m
workouts_after(idx, m, ws) ==
  append_workout(ws, day_number_of(idx, m.group1), extract_exercises_from_day_text(m.group2))

----------------------------------------------------------------------------
(* Flat exercise-name extractor: extract_exercises_from_text *)

\* What a call of parse_workout_plan_from_text comes to: the list it returns,
\* or the ValueError it raises.  at is the start of the next match of
\* day_patterns[idx-1], 0 if there is none.
RECURSIVE scan_matches(_, _, _, _)
scan_matches(idx, s, ws, at) ==
  IF at = 0
  THEN IF idx < 2
       THEN scan_matches(idx + 1, s, ws, next_match(idx + 1, s, 1))
       ELSE [raised |-> FALSE, value |-> ws]
  ELSE IF loop_body_raises(idx, DayMatchAt(idx, s, at))
       THEN [raised |-> TRUE, value |-> <<>>]
       ELSE scan_matches(idx, s, workouts_after(idx, DayMatchAt(idx, s, at), ws),
                         next_match(idx, s, DayMatchAt(idx, s, at).end))

parse_workout_plan_from_text(ai_response_text) ==
  scan_matches(1, ai_response_text, <<>>, next_match(1, ai_response_text, 1))

\* lines 482-484
plan_exercise_name(exercise) == strip(remove_stars(strip(exercise.name)))

\* lines 481-488 over the exercises of one plan
RECURSIVE plan_exercise_names(_)
plan_exercise_names(exs) ==
  IF exs = <<>> THEN <<>>
  ELSE (IF Len(plan_exercise_name(Head(exs))) > 2
        THEN <<plan_exercise_name(Head(exs))>> ELSE <<>>)
       \o plan_exercise_names(Tail(exs))

\* lines 476-488: all_plan_exercises
RECURSIVE all_plan_exercises(_)
all_plan_exercises(workout_plans) ==
  IF workout_plans = <<>> THEN <<>>
  ELSE plan_exercise_names(Head(workout_plans).exercises)
       \o all_plan_exercises(Tail(workout_plans))

\* lines 471-495: found_exercises after Method 1.  The except clause leaves
\* the list as it was, empty, when the parser raised.
found_after_plan(outcome) ==
  IF outcome.raised THEN <<>> ELSE all_plan_exercises(outcome.value)

\* \s*\d+ matched at c: where it ends, 0 if it does not match.  c = 0 stands
\* for a pattern that failed before.
NumEnd(s, c) ==
  IF c # 0 /\ IsDigit(s, SkipSpaces(s, c)) THEN SkipDigits(s, SkipSpaces(s, c)) ELSE 0

\* word followed by s? matched at e under re.IGNORECASE
WordEnd(s, e, word) ==
  IF StartsAtI(s, e, word)
  THEN IF StartsAtI(s, e + Len(word), "s") THEN e + Len(word) + 1 ELSE e + Len(word)
  ELSE 0

\* \s*\d+\s*sets? matched at c
SetsEnd(s, c) ==
  IF NumEnd(s, c) # 0 THEN WordEnd(s, SkipSpaces(s, NumEnd(s, c)), "set") ELSE 0

\* \s*[x×]\s*\d+ matched at c: U+00D7 has no TLA+ string, and no modelled
\* text contains it (nor the dashes U+2013 and U+2014 of pattern 4)
TimesEnd(s, c) ==
  IF c # 0 /\ StartsAtI(s, SkipSpaces(s, c), "x")
  THEN NumEnd(s, SkipSpaces(s, c) + 1)
  ELSE 0

\* \s*reps? matched at c
RepsEnd(s, c) == IF c # 0 THEN WordEnd(s, SkipSpaces(s, c), "rep") ELSE 0

\* a match of a fallback pattern: group(1) and the end of the match
FallbackMatch(b, end) ==
  IF b.matched /\ end # 0
  THEN [matched |-> TRUE, group1 |-> b.group1, end |-> end]
  ELSE NoMatch

ColonOf(b) == IF b.matched THEN b.colon + 1 ELSE 0

\* [-•*]\s*([^-]+?)\s*[-–—] matched at p, dash being the first '-' after p
DashNameAt(s, p, dash) ==
  IF Char(s, p) \in BulletSet /\ dash >= p + 2 /\ dash <= Len(s)
  THEN [matched |-> TRUE, group1 |-> SubSeq(s, p + 1, dash - 1), colon |-> dash]
  ELSE NoMatch

\* patterns[k-1] of lines 501-510 matched at p
Fallback1At(s, b) == FallbackMatch(b, TimesEnd(s, SetsEnd(s, ColonOf(b))))
Fallback2At(s, b) == FallbackMatch(b, SetsEnd(s, ColonOf(b)))
Fallback3At(s, b) == FallbackMatch(b, RepsEnd(s, TimesEnd(s, SetsEnd(s, ColonOf(b)))))
Fallback4At(s, b) == FallbackMatch(b, TimesEnd(s, NumEnd(s, ColonOf(b)) ))

FallbackAt(k, s, p) ==
  IF k = 1 THEN Fallback1At(s, BoldNameFrom(s, p, Find(s, p + 2, "*")))
  ELSE IF k = 2 THEN Fallback2At(s, BoldNameAt(s, p))
  ELSE IF k = 3 THEN Fallback3At(s, PlainNameAt(s, p, Find(s, p + 1, ":")))
  ELSE Fallback4At(s, DashNameAt(s, p, Find(s, p + 1, "-")))

\* the start of the leftmost match of patterns[k-1] at or after from, 0 if none
fallback_search(k, s, from) ==
  Leftmost({p \in from..Len(s) : FallbackAt(k, s, p).matched})

\* re.findall(patterns[k-1], text, re.IGNORECASE | re.MULTILINE) from the match at at on
RECURSIVE findall(_, _, _)
findall(k, s, at) ==
  IF at = 0 THEN <<>>
  ELSE <<FallbackAt(k, s, at).group1>>
       \o findall(k, s, fallback_search(k, s, FallbackAt(k, s, at).end))

\* re.sub(r'^(a|an|the)\s+', '', s, flags=re.IGNORECASE)
remove_article(s) ==
  IF \E w \in {"a", "an", "the"} : StartsAtI(s, 1, w) /\ IsSpace(s, Len(w) + 1)
  THEN SubSeq(s, SkipSpaces(s, 1 + Len(CHOOSE w \in {"a", "an", "the"} :
                                         StartsAtI(s, 1, w) /\ IsSpace(s, Len(w) + 1))),
              Len(s))
  ELSE s

\* re.sub(r'\s+', ' ', s)
RECURSIVE collapse_spaces(_)
collapse_spaces(s) ==
  IF s = "" THEN ""
  ELSE IF IsSpace(s, 1) THEN " " \o collapse_spaces(SubSeq(s, SkipSpaces(s, 1), Len(s)))
  ELSE Head(s) \o collapse_spaces(Tail(s))

\* lines 517-521
clean_match(match) ==
  collapse_spaces(remove_article(strip(remove_stars(strip(match)))))

\* lines 523-525
accepted(exercise_name, found) ==
  /\ Len(exercise_name) > 2
  /\ \A i \in 1..Len(found) : found[i] # exercise_name
  /\ ~AnyIn(lower(exercise_name), {"day", "workout", "training", "rest"})

\* lines 516-527: found_exercises after the matches of one pattern
RECURSIVE add_matches(_, _)
add_matches(found, matches) ==
  IF matches = <<>> THEN found
  ELSE add_matches(IF accepted(clean_match(Head(matches)), found)
                   THEN Append(found, clean_match(Head(matches)))
                   ELSE found,
                   Tail(matches))

\* lines 512-527: found_exercises after patterns k..4
RECURSIVE fallback_from(_, _, _)
fallback_from(k, text_, found) ==
  IF k > 4 THEN found
  ELSE fallback_from(k + 1, text_,
                     add_matches(found, findall(k, text_, fallback_search(k, text_, 1))))

\* line 498 taken as if it read "if True"
needs_fallback_Always(found) == TRUE

\* line 498
needs_fallback(found) == Len(found) = 0

\* lines 497-527
after_fallback(found, text_) ==
  IF needs_fallback(found) THEN fallback_from(1, text_, found) ELSE found

\* return unique_exercises[:100]
result_limit == 100

\* line 533 with seen holding the names as they are
seen_key_Exact(exercise) == strip(exercise)

\* line 533: exercise_lower
seen_key(exercise) == lower(strip(exercise))

\* line 534
keeps(exercise, seen_names) ==
  seen_key(exercise) \notin seen_names /\ Len(seen_key(exercise)) > 2

\* lines 530-536: unique_exercises, seen_names being the set seen so far
RECURSIVE unique_from(_, _)
unique_from(found, seen_names) ==
  IF found = <<>> THEN <<>>
  ELSE IF keeps(Head(found), seen_names)
       THEN <<Head(found)>>
            \o unique_from(Tail(found), seen_names \cup {seen_key(Head(found))})
       ELSE unique_from(Tail(found), seen_names)

\* lst[:n]
first(lst, n) == SubSeq(lst, 1, Min(Len(lst), n))

\* lines 529-540
unique_exercises(found) == first(unique_from(found, {}), result_limit)

\* line 532 taken as if it read "for exercise in set(found_exercises)": the
\* orders in which the entries may come
iteration_orders_Set(found) ==
  {[i \in 1..Len(found) |-> found[f[i]]] :
     f \in {g \in [1..Len(found) -> 1..Len(found)] :
              \A i, j \in 1..Len(found) : i # j => g[i] # g[j]}}

\* line 532: the orders in which "for exercise in found_exercises" may take
\* the entries.  found_exercises is a list.
iteration_orders(found) == {found}

extract_exercises_from_text(text_) ==
  unique_exercises(after_fallback(found_after_plan(parse_workout_plan_from_text(text_)),
                                  text_))

----------------------------------------------------------------------------
(* Inputs *)

MaxNameWords == 2
MaxChunks == 4
MaxExercises == 3
MaxLines == 3
MaxDays == 2
MaxCandidates == 3
MaxFlatLines == 2

SeqsUpTo(S, n) == UNION {[1..k -> S] : k \in 0..n}

\* sep.join(parts)
RECURSIVE join(_, _)
join(parts, sep) ==
  IF parts = <<>> THEN ""
  ELSE IF Len(parts) = 1 THEN parts[1]
  ELSE parts[1] \o sep \o join(Tail(parts), sep)

RECURSIVE concat(_)
concat(seqs) == IF seqs = <<>> THEN <<>> ELSE Head(seqs) \o concat(Tail(seqs))

NameWords ==
  {"Bench", "Press", "Dip", "Row", "Tricep", "Curl", "Lunge", "Overhead", "Yoga",
   "jog", "easy", "ab", "the", "a", "is", "extraordinarilyheavypress"}

NameExamples == {<<"Barbell", "Bench", "Press">>, <<"the">>}

NameInputs == SeqsUpTo(NameWords, MaxNameWords) \cup NameExamples

NumberChunks == {"0", "3", "12"}
DetailChunks == NumberChunks \cup {" ", "x", "sets", "reps", "kg", "lbs", "."}

DetailExamples ==
  {<<"3", " ", "sets", " ", "x", " ", "12", " ", "reps">>, <<"4", "x", "8">>,
   <<"20", " ", "lbs">>, <<"15", " ", "kg">>,
   <<"15", " ", "kg", " ", "or", " ", "30", " ", "lbs">>}

\* chunks are lexical units: a run of digits is one chunk
Lexical(chunks) ==
  \A i \in 1..(Len(chunks) - 1) : ~(IsDigit(chunks[i], 1) /\ IsDigit(chunks[i + 1], 1))

DetailInputs == {c \in SeqsUpTo(DetailChunks, MaxChunks) : Lexical(c)} \cup DetailExamples

DurationExercises ==
  {[name |-> n, sets |-> k] : n \in {"Squat", "Bicep Curl", "Plank"}, k \in {3, 4}}

DurationInputs == SeqsUpTo(DurationExercises, MaxExercises)

PrimaryExercises ==
  {[name |-> "Bench Press", category |-> "chest"], [name |-> "Squats", category |-> "legs"],
   [name |-> "Barbell Row", category |-> "back"], [name |-> "Stretch"]}

PrimaryInputs == SeqsUpTo(PrimaryExercises, MaxExercises)

\* names as Method 1 and Method 2 leave them: stripped, longer than two
CandidateNames == {"Bench Press", "bench press", "Squats", "Plank"}

\* two more candidates than the result may hold, the second repeating the
\* first in another case
LongCandidates ==
  [i \in 1..(result_limit + 2) |->
     IF i = 1 THEN "Squat 1" ELSE IF i = 2 THEN "squat 1" ELSE "Squat " \o ToString(i - 1)]

CandidateInputs == SeqsUpTo(CandidateNames, MaxCandidates) \cup {LongCandidates}

DayLine(n, t) == [kind |-> "day", num |-> n, title |-> t]
WeekdayLine(d, t) == [kind |-> "weekday", weekday |-> d, title |-> t]
\* a "Day N:" header whose title starts with a weekday-name header
DayWeekdayLine(n, d, t) == [kind |-> "both", num |-> n, weekday |-> d, title |-> t]
ExerciseLine(n, d) == [kind |-> "exercise", name |-> n, details |-> d]
NoteLine(t) == [kind |-> "note", text |-> t]
BoldLine(n, d) == [kind |-> "bold", name |-> n, details |-> d]
DashLine(n, d) == [kind |-> "dash", name |-> n, details |-> d]
\* an exercise line with a trailing " - <note>", its name in bold or plain
NotedLine(style, n, d, t) ==
  [kind |-> "exercise", style |-> style, name |-> n, details |-> d, note |-> t]

\* s repeated n times
RECURSIVE repeat(_, _)
repeat(s, n) ==
  IF n = 0 THEN ""
  ELSE IF n % 2 = 0 THEN repeat(s \o s, n \div 2)
  ELSE s \o repeat(s \o s, n \div 2)

\* a "Day N:" header whose N has one digit more than int() converts
LongDayLine == NoteLine("Day " \o repeat("1", int_max_str_digits + 1) \o ": Chest")

BlockHeaders == {DayLine(1, "Chest"), DayLine(2, "Legs")}

\* the exercise lines of a block
BlockBodies ==
  {<<ExerciseLine("Bench Press", "3x12"), ExerciseLine("Push-ups", "3x15")>>,
   <<ExerciseLine("Squats", "4x8")>>,
   <<ExerciseLine("Push-ups", "3x15")>>}

\* a text of Day blocks: each a "Day N:" header and its exercise lines
Blocks == {<<h>> \o b : h \in BlockHeaders, b \in BlockBodies}

BlockTexts == {concat(bs) : bs \in SeqsUpTo(Blocks, MaxDays)}

\* lines of any kind, in any order
LineVocabulary ==
  {DayLine(1, "Chest"), DayLine(10, "Arms"), WeekdayLine("Wednesday", "Pull"),
   ExerciseLine("Bench Press", "3x12"), ExerciseLine("bench press", "4 sets x 8 reps"),
   ExerciseLine("Squats", "4x8"), ExerciseLine("the", "3x10"),
   NoteLine("Rest day")}

\* texts of particular interest
PlanExamples ==
  {<<DayLine(1, "Legs"), ExerciseLine("Squats", "0 sets x 0 reps")>>,
   <<LongDayLine, ExerciseLine("Bench Press", "3x12")>>,
   <<DayLine(1, "Chest"), ExerciseLine("Bench Press", "3x12"), NoteLine("Today is hard"),
     ExerciseLine("Squats", "4x8")>>,
   <<DayLine(1, "Core"), NotedLine("bold", "Plank", "3 sets", "keep hips level"),
     NotedLine("plain", "Squats", "4x8", "go deep")>>,
   <<DayWeekdayLine(1, "Tuesday", "Chest"), ExerciseLine("Bench Press", "3x12")>>}

\* lines of a reply as the flat extractor meets them
FlatVocabulary ==
  {DayLine(1, "Chest"), DayLine(2, "Legs"),
   ExerciseLine("Bench Press", "3 sets x 12 reps"), ExerciseLine("bench press", "3x12"),
   ExerciseLine("Foo Bar", "3 sets x 10 reps"), ExerciseLine("the Deadlift", "3 sets x 5 reps"),
   BoldLine("Plank", "3 sets"), DashLine("Squats", "4x8"), NoteLine("Rest day")}

FlatExamples ==
  {<<DayLine(1, "Chest"), ExerciseLine("Bench Press", "3 sets x 12 reps"),
     DashLine("Squats", "4x8")>>,
   <<DayLine(2, "Legs"), BoldLine("Plank", "3 sets"), DayLine(1, "Chest"),
     ExerciseLine("Bench Press", "3 sets x 12 reps"), DashLine("Squats", "4x8")>>,
   <<LongDayLine, ExerciseLine("Bench Press", "3 sets x 12 reps")>>}

FlatInputs == SeqsUpTo(FlatVocabulary, MaxFlatLines) \cup FlatExamples

\* request bodies: each key present or not
PlanRequests == {"", "build muscle", "weekly plan for legs"}
Messages == {"", "hi", "make me a workout plan"}
Preferences == {<<>>, <<<<"goal", "strength">>>>}
FullBodies ==
  [request : PlanRequests, message : Messages, create_plan : BOOLEAN, preferences : Preferences]
BodyKeys == {"request", "message", "create_plan", "preferences"}
Bodies == {[k \in keys |-> full[k]] : full \in FullBodies, keys \in SUBSET BodyKeys}

\* the invocations that run side by side
Runs == {1, 2}

\* the texts they are called on
RunInputs ==
  {<<>>,
   <<DayLine(1, "Chest"), ExerciseLine("Bench Press", "3 sets x 12 reps"),
     ExerciseLine("Squats", "4x8")>>,
   <<DayLine(1, "Chest"), ExerciseLine("Bench Press", "3 sets x 12 reps"),
     ExerciseLine("bench press", "3x12")>>,
   <<ExerciseLine("Foo Bar", "3 sets x 10 reps"), DashLine("Squats", "4x8")>>,
   <<LongDayLine, BoldLine("Plank", "3 sets")>>}

PlanInputs == SeqsUpTo(LineVocabulary, MaxLines) \cup BlockTexts \cup PlanExamples

render_line(l) ==
  IF l.kind = "day" THEN "Day " \o ToString(l.num) \o ": " \o l.title
  ELSE IF l.kind = "weekday" THEN l.weekday \o ": " \o l.title
  ELSE IF l.kind = "both"
    THEN "Day " \o ToString(l.num) \o ": " \o l.weekday \o ": " \o l.title
  ELSE IF l.kind = "exercise" /\ "note" \in DOMAIN l
    THEN (IF l.style = "bold" THEN "- **" \o l.name \o "**: " ELSE "- " \o l.name \o ": ")
         \o l.details \o " - " \o l.note
  ELSE IF l.kind = "exercise" THEN "- " \o l.name \o ": " \o l.details
  ELSE IF l.kind = "bold" THEN "- **" \o l.name \o "**: " \o l.details
  ELSE IF l.kind = "dash" THEN "- " \o l.name \o " - " \o l.details
  ELSE l.text

render(lines) == join([i \in 1..Len(lines) |-> render_line(lines[i])], "\n")

RunTexts == {render(lines) : lines \in RunInputs}

----------------------------------------------------------------------------
(* The endpoint /create-workout-plan and the handler fitness_trainer *)

\* data.get(key, default) on a JSON object, a function from its keys
get(data, key, default) == IF key \in DOMAIN data THEN data[key] ELSE default

\* json.dumps of a flat dict of strings, given as its items in order
json_dumps(items) ==
  "{" \o join([i \in 1..Len(items) |->
                 "\"" \o items[i][1] \o "\": \"" \o items[i][2] \o "\""], ", ") \o "}"

\* lines 876-888
enhanced_prompt(plan_request, user_preferences) ==
  "Create a detailed weekly workout plan based on this request: \"" \o plan_request
  \o "\"\n\nUser preferences: " \o json_dumps(user_preferences)
  \o "\n\nPlease provide a structured 7-day workout plan using this format:\n\n"
  \o "Day 1: [Workout Name/Focus]\n- Exercise 1: 3 sets x 12 reps\n"
  \o "- Exercise 2: 3 sets x 10 reps\n- Exercise 3: 4 sets x 8 reps\n\n"
  \o "Day 2: [Workout Name/Focus]\n- Exercise 1: 3 sets x 15 reps\n"
  \o "- Exercise 2: 3 sets x 12 reps\n\n"
  \o "Continue for all 7 days. Include rest days where appropriate."

\* lines 890-895
workout_data_of(plan_request, user_preferences) ==
  [message |-> enhanced_prompt(plan_request, user_preferences), create_plan |-> TRUE,
   include_images |-> TRUE, enable_search |-> FALSE]

\* lines 611-620
plan_keywords ==
  {"create a plan", "workout plan", "training plan", "exercise plan", "schedule workout",
   "plan my workout", "weekly plan", "workout schedule", "training schedule", "routine plan",
   "fitness plan", "add to calendar", "create schedule", "weekly routine", "daily workout",
   "workout calendar"}

should_create_workout_plan(user_message) == AnyIn(lower(user_message), plan_keywords)

\* line 896 taken as if it passed workout_data on: what fitness_trainer reads
trainer_data_Passed(body, local_data) == local_data

\* lines 896 and 699: fitness_trainer() takes no argument and calls
\* request.get_json() itself, so it reads the body of the request and not
\* the dict the endpoint built
trainer_data(body, local_data) == body

\* lines 703, 711-712: create_plan as the chat-completion call finds it.  The
\* modelled bodies have no active_plan, so lines 714-717 leave it alone.
create_plan_of(data) ==
  IF get(data, "create_plan", FALSE) THEN TRUE
  ELSE should_create_workout_plan(get(data, "message", ""))

----------------------------------------------------------------------------
(* State machines *)

IdleClassifier == name_words = <<>> /\ name = "" /\ valid = NoResult /\ category = NoResult
IdleDetails == details_chunks = <<>> /\ details_text = "" /\ details = NoResult
IdleDuration == exercises = <<>> /\ duration = NoResult
IdlePlan ==
  /\ plan_lines = <<>> /\ ai_response = "" /\ pc = "idle"
  /\ pattern_idx = 1 /\ scan_pos = 1 /\ workouts = <<>>

IdlePrimary == categorized = <<>> /\ primary_category = NoResult

IdleUnique ==
  /\ candidates = <<>> /\ unique_pos = 1 /\ seen_lower = {} /\ unique_list = <<>>
  /\ returned = NoResult
IdleFlat ==
  /\ flat_lines = <<>> /\ flat_text = "" /\ found_exercises = <<>>
  /\ flat_pc = "idle" /\ flat_result = NoResult
IdleRuns ==
  /\ run_text = <<>> /\ run_pc = <<>> /\ run_found = <<>> /\ run_result = <<>>
  /\ fitness_indicators = FITNESS_INDICATORS

\* the calls that are not part of the first four machines are idle
IdleEndpoint ==
  /\ request_body = <<>> /\ endpoint_pc = "idle" /\ workout_data = NoResult
  /\ response_status = 0 /\ chat_call = NoResult

IdleLater == IdlePrimary /\ IdleUnique /\ IdleFlat /\ IdleRuns /\ IdleEndpoint

classifier_vars == <<name_words, name, valid, category>>
details_vars == <<details_chunks, details_text, details>>
duration_vars == <<exercises, duration>>
plan_vars == <<plan_lines, ai_response, pc, pattern_idx, scan_pos, workouts>>
primary_vars == <<categorized, primary_category>>
unique_vars == <<candidates, unique_pos, seen_lower, unique_list, returned>>
flat_vars == <<flat_lines, flat_text, found_exercises, flat_pc, flat_result>>
runs_vars == <<run_text, run_pc, run_found, run_result, fitness_indicators>>
endpoint_vars ==
  <<request_body, endpoint_pc, workout_data, response_status, chat_call>>
later_vars == <<primary_vars, unique_vars, flat_vars, runs_vars, endpoint_vars>>

(* the classifier, called on a name *)
InitName ==
  /\ name_words \in NameInputs
  /\ name = join(name_words, " ")
  /\ valid = NoResult /\ category = NoResult
  /\ IdleDetails /\ IdleDuration /\ IdlePlan /\ IdleLater

CallIsValid ==
  /\ valid = NoResult
  /\ valid' = Result(_is_valid_exercise_name(name))
  /\ UNCHANGED <<name_words, name, category, details_vars, duration_vars, plan_vars, later_vars>>

CallCategorize ==
  /\ category = NoResult
  /\ category' = Result(categorize_exercise(name))
  /\ UNCHANGED <<name_words, name, valid, details_vars, duration_vars, plan_vars, later_vars>>

NextName == CallIsValid \/ CallCategorize
SpecName == InitName /\ [][NextName]_vars

(* the detail parser, called on a fragment *)
InitDetails ==
  /\ details_chunks \in DetailInputs
  /\ details_text = join(details_chunks, "")
  /\ details = NoResult
  /\ IdleClassifier /\ IdleDuration /\ IdlePlan /\ IdleLater

CallParseDetails ==
  /\ details = NoResult
  /\ details' = Result(parse_exercise_details(details_text))
  /\ UNCHANGED <<details_chunks, details_text, classifier_vars, duration_vars, plan_vars, later_vars>>

NextDetails == CallParseDetails
SpecDetails == InitDetails /\ [][NextDetails]_vars

(* the duration estimator, called on an exercise list *)
InitDuration ==
  /\ exercises \in DurationInputs
  /\ duration = NoResult
  /\ IdleClassifier /\ IdleDetails /\ IdlePlan /\ IdleLater

CallEstimate ==
  /\ duration = NoResult
  /\ duration' = Result(estimate_workout_duration(exercises))
  /\ UNCHANGED <<exercises, classifier_vars, details_vars, plan_vars, later_vars>>

NextDuration == CallEstimate
SpecDuration == InitDuration /\ [][NextDuration]_vars

(* parse_workout_plan_from_text, one loop iteration per step *)
InitPlan ==
  /\ plan_lines \in PlanInputs
  /\ ai_response = render(plan_lines)
  /\ pc = "scan" /\ pattern_idx = 1 /\ scan_pos = 1 /\ workouts = <<>>
  /\ IdleClassifier /\ IdleDetails /\ IdleDuration /\ IdleLater

\* lines 79-106: the body of the inner loop on the match m
ScanMatchAt(m) ==
  /\ ~loop_body_raises(pattern_idx, m)
  /\ workouts' = workouts_after(pattern_idx, m, workouts)
  /\ scan_pos' = m.end
  /\ UNCHANGED <<plan_lines, ai_response, pc, pattern_idx,
                 classifier_vars, details_vars, duration_vars, later_vars>>

ScanMatch ==
  /\ pc = "scan"
  /\ next_match(pattern_idx, ai_response, scan_pos) # 0
  /\ ScanMatchAt(DayMatchAt(pattern_idx, ai_response,
                            next_match(pattern_idx, ai_response, scan_pos)))

\* lines 85, 95: the body of the inner loop raises ValueError, which nothing
\* in parse_workout_plan_from_text catches
ScanRaiseAt(m) ==
  /\ loop_body_raises(pattern_idx, m)
  /\ pc' = "raised"
  /\ UNCHANGED <<plan_lines, ai_response, pattern_idx, scan_pos, workouts,
                 classifier_vars, details_vars, duration_vars, later_vars>>

ScanRaise ==
  /\ pc = "scan"
  /\ next_match(pattern_idx, ai_response, scan_pos) # 0
  /\ ScanRaiseAt(DayMatchAt(pattern_idx, ai_response,
                            next_match(pattern_idx, ai_response, scan_pos)))

\* line 77: finditer is exhausted, the outer loop takes the next pattern
NextPattern ==
  /\ pc = "scan"
  /\ pattern_idx < 2
  /\ next_match(pattern_idx, ai_response, scan_pos) = 0
  /\ pattern_idx' = pattern_idx + 1
  /\ scan_pos' = 1
  /\ UNCHANGED <<plan_lines, ai_response, pc, workouts,
                 classifier_vars, details_vars, duration_vars, later_vars>>

\* line 108: return workouts
Return ==
  /\ pc = "scan"
  /\ pattern_idx = 2
  /\ next_match(pattern_idx, ai_response, scan_pos) = 0
  /\ pc' = "done"
  /\ UNCHANGED <<plan_lines, ai_response, pattern_idx, scan_pos, workouts,
                 classifier_vars, details_vars, duration_vars, later_vars>>

NextPlan == ScanMatch \/ ScanRaise \/ NextPattern \/ Return
SpecPlan == InitPlan /\ [][NextPlan]_vars

(* determine_primary_category, called on an exercise list *)
InitPrimary ==
  /\ categorized \in PrimaryInputs
  /\ primary_category = NoResult
  /\ IdleClassifier /\ IdleDetails /\ IdleDuration /\ IdlePlan
  /\ IdleUnique /\ IdleFlat /\ IdleRuns /\ IdleEndpoint

CallPrimary ==
  /\ primary_category = NoResult
  /\ primary_category' = Result(determine_primary_category(categorized))
  /\ UNCHANGED <<categorized, classifier_vars, details_vars, duration_vars, plan_vars,
                 unique_vars, flat_vars, runs_vars, endpoint_vars>>

NextPrimary == CallPrimary
SpecPrimary == InitPrimary /\ [][NextPrimary]_vars

(* lines 529-540, entered with the accumulated candidates; one iteration of *)
(* the loop per step                                                        *)
InitUnique ==
  /\ candidates \in CandidateInputs
  /\ unique_pos = 1 /\ seen_lower = {} /\ unique_list = <<>>
  /\ returned = NoResult
  /\ IdleClassifier /\ IdleDetails /\ IdleDuration /\ IdlePlan
  /\ IdlePrimary /\ IdleFlat /\ IdleRuns /\ IdleEndpoint

\* lines 532-536
UniqueStep ==
  /\ returned = NoResult
  /\ unique_pos <= Len(candidates)
  /\ IF keeps(candidates[unique_pos], seen_lower)
     THEN /\ seen_lower' = seen_lower \cup {seen_key(candidates[unique_pos])}
          /\ unique_list' = Append(unique_list, candidates[unique_pos])
     ELSE UNCHANGED <<seen_lower, unique_list>>
  /\ unique_pos' = unique_pos + 1
  /\ UNCHANGED <<candidates, returned, classifier_vars, details_vars, duration_vars,
                 plan_vars, primary_vars, flat_vars, runs_vars, endpoint_vars>>

\* line 540
UniqueReturn ==
  /\ returned = NoResult
  /\ unique_pos > Len(candidates)
  /\ returned' = Result(first(unique_list, result_limit))
  /\ UNCHANGED <<candidates, unique_pos, seen_lower, unique_list, classifier_vars, details_vars,
                 duration_vars, plan_vars, primary_vars, flat_vars, runs_vars, endpoint_vars>>

NextUnique == UniqueStep \/ UniqueReturn
SpecUnique == InitUnique /\ [][NextUnique]_vars

(* extract_exercises_from_text, one method per step *)
InitFlat ==
  /\ flat_lines \in FlatInputs
  /\ flat_text = render(flat_lines)
  /\ found_exercises = <<>> /\ flat_pc = "plan" /\ flat_result = NoResult
  /\ IdleClassifier /\ IdleDetails /\ IdleDuration /\ IdlePlan
  /\ IdlePrimary /\ IdleUnique /\ IdleRuns /\ IdleEndpoint

\* lines 471-495: Method 1
PlanPass ==
  /\ flat_pc = "plan"
  /\ found_exercises' = found_after_plan(parse_workout_plan_from_text(flat_text))
  /\ flat_pc' = "method2"
  /\ UNCHANGED <<flat_lines, flat_text, flat_result, classifier_vars, details_vars,
                 duration_vars, plan_vars, primary_vars, unique_vars, runs_vars, endpoint_vars>>

\* lines 498-527: Method 2
Fallback ==
  /\ flat_pc = "method2"
  /\ needs_fallback(found_exercises)
  /\ found_exercises' = fallback_from(1, flat_text, found_exercises)
  /\ flat_pc' = "unique"
  /\ UNCHANGED <<flat_lines, flat_text, flat_result, classifier_vars, details_vars,
                 duration_vars, plan_vars, primary_vars, unique_vars, runs_vars, endpoint_vars>>

\* line 498: the condition is false
SkipFallback ==
  /\ flat_pc = "method2"
  /\ ~needs_fallback(found_exercises)
  /\ flat_pc' = "unique"
  /\ UNCHANGED <<flat_lines, flat_text, found_exercises, flat_result, classifier_vars,
                 details_vars, duration_vars, plan_vars, primary_vars, unique_vars, runs_vars, endpoint_vars>>

\* lines 529-540
Finish ==
  /\ flat_pc = "unique"
  /\ flat_result' = Result(unique_exercises(found_exercises))
  /\ flat_pc' = "done"
  /\ UNCHANGED <<flat_lines, flat_text, found_exercises, classifier_vars, details_vars,
                 duration_vars, plan_vars, primary_vars, unique_vars, runs_vars, endpoint_vars>>

NextFlat == PlanPass \/ Fallback \/ SkipFallback \/ Finish
SpecFlat == InitFlat /\ [][NextFlat]_vars

(* two invocations of extract_exercises_from_text, their steps interleaved. *)
(* The locals of an invocation are its own; the module-level list is one.   *)
InitRuns ==
  /\ run_text \in [Runs -> RunTexts]
  /\ run_pc = [r \in Runs |-> "plan"]
  /\ run_found = [r \in Runs |-> <<>>]
  /\ run_result = [r \in Runs |-> NoResult]
  /\ fitness_indicators = FITNESS_INDICATORS
  /\ IdleClassifier /\ IdleDetails /\ IdleDuration /\ IdlePlan
  /\ IdlePrimary /\ IdleUnique /\ IdleFlat /\ IdleEndpoint

other_vars ==
  <<classifier_vars, details_vars, duration_vars, plan_vars, primary_vars, unique_vars,
    flat_vars, endpoint_vars>>

\* lines 471-495: Method 1, with the calls of _is_valid_exercise_name it makes
RunPlanPass(r) ==
  /\ run_pc[r] = "plan"
  /\ run_found' = [run_found EXCEPT ![r] =
                     found_after_plan(parse_workout_plan_from_text(run_text[r]))]
  /\ fitness_indicators' = indicators_after_call(fitness_indicators)
  /\ run_pc' = [run_pc EXCEPT ![r] = "method2"]
  /\ UNCHANGED <<run_text, run_result, other_vars>>

\* lines 497-527: Method 2
RunFallback(r) ==
  /\ run_pc[r] = "method2"
  /\ run_found' = [run_found EXCEPT ![r] = after_fallback(run_found[r], run_text[r])]
  /\ run_pc' = [run_pc EXCEPT ![r] = "unique"]
  /\ UNCHANGED <<run_text, run_result, fitness_indicators, other_vars>>

\* lines 529-540
RunFinish(r) ==
  /\ run_pc[r] = "unique"
  /\ \E order \in iteration_orders(run_found[r]) :
       run_result' = [run_result EXCEPT ![r] = Result(unique_exercises(order))]
  /\ run_pc' = [run_pc EXCEPT ![r] = "done"]
  /\ UNCHANGED <<run_text, run_found, fitness_indicators, other_vars>>

NextRuns == \E r \in Runs : RunPlanPass(r) \/ RunFallback(r) \/ RunFinish(r)
SpecRuns == InitRuns /\ [][NextRuns]_vars

(* a POST to /create-workout-plan *)
InitEndpoint ==
  /\ request_body \in Bodies
  /\ endpoint_pc = "create_workout_plan" /\ workout_data = NoResult
  /\ response_status = 0 /\ chat_call = NoResult
  /\ IdleClassifier /\ IdleDetails /\ IdleDuration /\ IdlePlan
  /\ IdlePrimary /\ IdleUnique /\ IdleFlat /\ IdleRuns

engine_vars ==
  <<classifier_vars, details_vars, duration_vars, plan_vars, primary_vars, unique_vars,
    flat_vars, runs_vars>>

\* lines 873-874
RequestRequired ==
  /\ endpoint_pc = "create_workout_plan"
  /\ get(request_body, "request", "") = ""
  /\ response_status' = 400
  /\ endpoint_pc' = "answered"
  /\ UNCHANGED <<request_body, workout_data, chat_call, engine_vars>>

\* lines 876-896, up to the call of fitness_trainer
BuildWorkoutData ==
  /\ endpoint_pc = "create_workout_plan"
  /\ get(request_body, "request", "") # ""
  /\ workout_data' = Result(workout_data_of(get(request_body, "request", ""),
                                            get(request_body, "preferences", <<>>)))
  /\ endpoint_pc' = "fitness_trainer"
  /\ UNCHANGED <<request_body, response_status, chat_call, engine_vars>>

\* lines 699-709: fitness_trainer answers 400 for an empty message
MessageRequired ==
  /\ endpoint_pc = "fitness_trainer"
  /\ get(trainer_data(request_body, workout_data[1]), "message", "") = ""
  /\ response_status' = 400
  /\ endpoint_pc' = "answered"
  /\ UNCHANGED <<request_body, workout_data, chat_call, engine_vars>>

\* lines 711-786: fitness_trainer goes on to requests.post
ChatCompletion ==
  /\ endpoint_pc = "fitness_trainer"
  /\ get(trainer_data(request_body, workout_data[1]), "message", "") # ""
  /\ chat_call' =
       Result([user_message |-> get(trainer_data(request_body, workout_data[1]), "message", ""),
               create_plan |-> create_plan_of(trainer_data(request_body, workout_data[1]))])
  /\ endpoint_pc' = "chat"
  /\ UNCHANGED <<request_body, workout_data, response_status, engine_vars>>

NextEndpoint == RequestRequired \/ BuildWorkoutData \/ MessageRequired \/ ChatCompletion
SpecEndpoint == InitEndpoint /\ [][NextEndpoint]_vars

Init ==
  \/ InitName \/ InitDetails \/ InitDuration \/ InitPlan \/ InitPrimary \/ InitUnique
  \/ InitFlat \/ InitRuns \/ InitEndpoint
Next ==
  \/ NextName \/ NextDetails \/ NextDuration \/ NextPlan \/ NextPrimary \/ NextUnique
  \/ NextFlat \/ NextRuns \/ NextEndpoint
Spec == Init /\ [][Next]_vars

----------------------------------------------------------------------------
(* Properties.  Each is stated on the inputs as they were composed (words,  *)
(* chunks, lines), not on the text the code scans.                          *)

RecordNames(w) == [k \in 1..Len(w.exercises) |-> w.exercises[k].name]

ObservedPlan ==
  [k \in 1..Len(workouts) |-> [day |-> workouts[k].day, names |-> RecordNames(workouts[k])]]

IsValidExerciseLine(l) == l.kind = "exercise" /\ _is_valid_exercise_name(l.name)

\* a text of "Day N:" blocks: each header on its own line and followed by
\* bullet lines "- <valid exercise name>: <details>"
IsDayBlockText(lines) ==
  /\ lines # <<>>
  /\ lines[1].kind = "day"
  /\ \A i \in 1..Len(lines) : lines[i].kind = "day" \/ IsValidExerciseLine(lines[i])
  /\ \A i \in 1..Len(lines) :
       lines[i].kind = "day" => i < Len(lines) /\ lines[i + 1].kind = "exercise"

DayLineIndexes(lines) == {i \in 1..Len(lines) : lines[i].kind = "day"}

NthDayLine(lines, k) ==
  CHOOSE i \in DayLineIndexes(lines) :
    Cardinality({j \in DayLineIndexes(lines) : j < i}) = k - 1

\* the last line of the block whose header is line i
BlockLastLine(lines, i) ==
  IF \E j \in DayLineIndexes(lines) : j > i
  THEN Leftmost({j \in DayLineIndexes(lines) : j > i}) - 1
  ELSE Len(lines)

ExpectedRecord(lines, i) ==
  [day |-> lines[i].num,
   names |-> [k \in 1..(BlockLastLine(lines, i) - i) |-> lines[i + k].name]]

ExpectedPlan(lines) ==
  [k \in 1..Cardinality(DayLineIndexes(lines)) |-> ExpectedRecord(lines, NthDayLine(lines, k))]

ExamplePlan ==
  <<DayLine(1, "Chest"), ExerciseLine("Bench Press", "3x12"), ExerciseLine("Push-ups", "3x15"),
    DayLine(2, "Legs"), ExerciseLine("Squats", "4x8")>>

\* C1: for a text made of "Day N:" blocks, each header followed by bullet
\* lines "- <valid exercise name>: <details>", parse_workout_plan_from_text
\* returns exactly one Day record per block, in the order of the headers, with
\* day N and with the block's exercises in the order of their lines.
C1_OneRecordPerBlock ==
  (pc = "done" /\ IsDayBlockText(plan_lines)) => ObservedPlan = ExpectedPlan(plan_lines)

\* the example of C1 has run: day 1 with two exercises, then day 2 with one
C1_ExampleParsed ==
  /\ pc = "done"
  /\ plan_lines = ExamplePlan
  /\ Len(workouts) = 2
  /\ workouts[1].day = 1 /\ RecordNames(workouts[1]) = <<"Bench Press", "Push-ups">>
  /\ workouts[2].day = 2 /\ RecordNames(workouts[2]) = <<"Squats">>

\* C2: for every exercise list, the empty one included, the duration estimate
\* the program uses is within 30..120 minutes, and it is 30 for the empty list.
C2_DurationInRange ==
  duration # NoResult =>
    /\ duration[1] \in 30..120
    /\ exercises = <<>> => duration[1] = 30

\* C3: for every non-empty exercise list, the duration estimate the program
\* uses is 15 plus, per exercise, sets x 3 (press/squat/deadlift/pull-up), else
\* sets x 2 (curl/raise/extension/fly), else sets x 2.5, clamped to 30..120;
\* [{Squat, 4 sets}, {Bicep Curl, 3 sets}] gives 33.  The two sides are in
\* half minutes.
C3_DurationFormula ==
  (duration # NoResult /\ exercises # <<>>) =>
    /\ 2 * duration[1] = estimate_workout_duration_1(exercises)
    /\ exercises = <<[name |-> "Squat", sets |-> 4], [name |-> "Bicep Curl", sets |-> 3]>>
         => duration[1] = 33

\* C4: no Day record has an empty exercises list, and a text none of whose
\* lines is a valid exercise line (a block whose only line is "Rest day")
\* gives no record at all.
C4_NoEmptyDay ==
  /\ \A k \in 1..Len(workouts) : workouts[k].exercises # <<>>
  /\ (pc = "done" /\ \A i \in 1..Len(plan_lines) : ~IsValidExerciseLine(plan_lines[i]))
       => workouts = <<>>

\* a block whose only line is "Rest day" was scanned and dropped
C4_RestDayDropped ==
  /\ pc = "done"
  /\ plan_lines = <<DayLine(1, "Chest"), NoteLine("Rest day")>>
  /\ workouts = <<>>

CategoryOrder ==
  <<"chest", "biceps", "triceps", "back", "shoulders", "legs", "core", "cardio">>

CategoryTerms ==
  [chest |-> {"press", "push", "chest", "bench", "fly", "dip"},
   biceps |-> {"curl", "bicep", "chin"},
   triceps |-> {"tricep", "extension", "dip"},
   back |-> {"row", "pull", "lat", "back"},
   shoulders |-> {"shoulder", "lateral", "overhead", "military"},
   legs |-> {"squat", "lunge", "leg", "quad", "hamstring"},
   core |-> {"plank", "crunch", "core", "ab", "sit"},
   cardio |-> {"run", "jog", "cardio", "bike", "treadmill"}]

\* the positions in CategoryOrder of the categories a term of which n holds
MatchingCategories(n) ==
  {k \in 1..Len(CategoryOrder) :
     \E t \in CategoryTerms[CategoryOrder[k]] : Contains(lower(n), t)}

\* C5: categorize_exercise(name) is the first category, in the order chest,
\* biceps, triceps, back, shoulders, legs, core, cardio, a term of which the
\* lower-cased name contains, and "other" when there is none; a name with both
\* "dip" and "row" gets the earlier category, chest.
C5_FirstCategoryWins ==
  category # NoResult =>
    /\ MatchingCategories(name) = {} => category[1] = "other"
    /\ MatchingCategories(name) # {} =>
         category[1] = CategoryOrder[Leftmost(MatchingCategories(name))]
    /\ (Contains(lower(name), "dip") /\ Contains(lower(name), "row")) => category[1] = "chest"

\* a name with a chest term and a back term was categorized
C5_DipRowIsChest == name = "Dip Row" /\ category = Result("chest")

IsNumberChunk(c) == c # "" /\ \A i \in 1..Len(c) : IsDigit(c, i)

\* the integer a number chunk is the decimal notation of
ChunkValue(c) == CHOOSE n \in 0..99 : ToString(n) = c

ChunkAt(chunks, i) == IF i \in 1..Len(chunks) THEN chunks[i] ELSE ""

\* the index of the first chunk after i that is not a space
RECURSIVE NextChunk(_, _)
NextChunk(chunks, i) ==
  IF ChunkAt(chunks, i + 1) = " " THEN NextChunk(chunks, i + 1) ELSE i + 1

\* the index of the first "<int> <word>" occurrence for a word of words, 0 if none
IntegerBefore(chunks, words) ==
  Leftmost({i \in 1..Len(chunks) :
              /\ IsNumberChunk(chunks[i])
              /\ ChunkAt(chunks, NextChunk(chunks, i)) \in words})

\* the index of the M of the first "NxM" occurrence, 0 if none
SecondOfNxM(chunks) ==
  NextChunk(chunks, NextChunk(chunks,
    Leftmost({i \in 1..Len(chunks) :
                /\ IsNumberChunk(chunks[i])
                /\ ChunkAt(chunks, NextChunk(chunks, i)) = "x"
                /\ IsNumberChunk(ChunkAt(chunks, NextChunk(chunks, NextChunk(chunks, i))))})))

HasNxM(chunks) ==
  \E i \in 1..Len(chunks) :
    /\ IsNumberChunk(chunks[i])
    /\ ChunkAt(chunks, NextChunk(chunks, i)) = "x"
    /\ IsNumberChunk(ChunkAt(chunks, NextChunk(chunks, NextChunk(chunks, i))))

ExpectedSets(chunks) ==
  IF IntegerBefore(chunks, {"sets", "x"}) # 0
  THEN ChunkValue(chunks[IntegerBefore(chunks, {"sets", "x"})])
  ELSE 3

ExpectedReps(chunks) ==
  IF IntegerBefore(chunks, {"reps", "repetitions"}) # 0
  THEN ChunkValue(chunks[IntegerBefore(chunks, {"reps", "repetitions"})])
  ELSE IF HasNxM(chunks) THEN ChunkValue(chunks[SecondOfNxM(chunks)])
  ELSE 10

Zero == [m |-> 0, e |-> 0]

\* C6: parse_exercise_details gives sets = the integer of the first
\* "<int> sets" or "<int>x" occurrence, else 3, and reps = the integer of an
\* explicit "<int> reps" occurrence when there is one, else the second number
\* of an "NxM" occurrence, else 10; the empty fragment gives (3, 10, 0.0),
\* "3 sets x 12 reps" gives (3, 12, 0.0) and "4x8" gives (4, 8, 0.0).
C6_SetsAndReps ==
  details # NoResult =>
    /\ details[1][1] = ExpectedSets(details_chunks)
    /\ details[1][2] = ExpectedReps(details_chunks)
    /\ details_text = "" => details[1] = <<3, 10, Zero>>
    /\ details_text = "3 sets x 12 reps" => details[1] = <<3, 12, Zero>>
    /\ details_text = "4x8" => details[1] = <<4, 8, Zero>>

\* "3 sets x 12 reps" was parsed
C6_ExampleParsed ==
  /\ details_chunks = <<"3", " ", "sets", " ", "x", " ", "12", " ", "reps">>
  /\ details = Result(<<3, 12, Zero>>)

WeightUnits == {"kg", "lbs", "pounds"}

\* the index of the unit of the weight occurrence whose number starts at
\* chunk i, 0 if none starts there: the number is "<int>.<int>" or "<int>"
WeightUnitOf(chunks, i) ==
  IF ~IsNumberChunk(ChunkAt(chunks, i)) THEN 0
  ELSE IF /\ ChunkAt(chunks, i + 1) = "."
          /\ IsNumberChunk(ChunkAt(chunks, i + 2))
          /\ ChunkAt(chunks, NextChunk(chunks, i + 2)) \in WeightUnits
       THEN NextChunk(chunks, i + 2)
  ELSE IF ChunkAt(chunks, NextChunk(chunks, i)) \in WeightUnits
       THEN NextChunk(chunks, i)
  ELSE 0

FirstWeight(chunks) == Leftmost({i \in 1..Len(chunks) : WeightUnitOf(chunks, i) # 0})

RECURSIVE PowerOfTen(_)
PowerOfTen(n) == IF n = 0 THEN 1 ELSE 10 * PowerOfTen(n - 1)

\* the number of the weight occurrence that starts at chunk i
WeightNumber(chunks, i) ==
  IF ChunkAt(chunks, i + 1) = "." /\ IsNumberChunk(ChunkAt(chunks, i + 2))
     /\ WeightUnitOf(chunks, i) = NextChunk(chunks, i + 2)
  THEN decimal(ChunkValue(chunks[i]) * PowerOfTen(Len(chunks[i + 2])) + ChunkValue(chunks[i + 2]),
               Len(chunks[i + 2]))
  ELSE decimal(ChunkValue(chunks[i]), 0)

\* number x 0.453592
TimesPoundFactor(w) == decimal(w.m * 453592, w.e + 6)

ExpectedWeight(chunks) ==
  IF FirstWeight(chunks) = 0 THEN Zero
  ELSE IF chunks[WeightUnitOf(chunks, FirstWeight(chunks))] \in {"lbs", "pounds"}
       THEN TimesPoundFactor(WeightNumber(chunks, FirstWeight(chunks)))
       ELSE WeightNumber(chunks, FirstWeight(chunks))

\* C7: parse_exercise_details takes weight from the first
\* "<number>(kg|lbs|pounds)" occurrence: the number times 0.453592 exactly
\* when the unit of that occurrence is lbs/pounds, the number as it is when
\* that unit is kg, whatever else the fragment holds, and 0.0 with no such
\* occurrence; "20 lbs" gives 20 x 0.453592 and "15 kg" gives 15.0.
C7_UnitOfFirstWeight ==
  details # NoResult =>
    /\ details[1][3] = ExpectedWeight(details_chunks)
    /\ details_text = "20 lbs" => details[1] = <<3, 10, [m |-> 907184, e |-> 5]>>
    /\ details_text = "15 kg" => details[1] = <<3, 10, [m |-> 15, e |-> 0]>>

\* C8: _is_valid_exercise_name(candidate) is true exactly when the candidate
\* has 3 to 50 characters, is not made of stop-words only, and holds a term of
\* the fitness vocabulary or matches one of the four structural patterns;
\* "the" is rejected and "Barbell Bench Press" is accepted.
C8_ValidNameCharacterized ==
  valid # NoResult =>
    /\ valid[1] <=>
         /\ Len(name) >= 3 /\ Len(name) <= 50
         /\ \E i \in 1..Len(name_words) : lower(name_words[i]) \notin common_words
         /\ \/ \E t \in fitness_terms : Contains(lower(name), t)
            \/ exercise_patterns(lower(name))
    /\ name = "the" => ~valid[1]
    /\ name = "Barbell Bench Press" => valid[1]

\* "Barbell Bench Press" was accepted
C8_ExampleAccepted == name = "Barbell Bench Press" /\ valid = Result(TRUE)

\* C9 as stated: every Day record has a day number in 1..7
C9_DayInWeek == \A k \in 1..Len(workouts) : workouts[k].day \in 1..7

WeekdayNumber ==
  [Monday |-> 1, Tuesday |-> 2, Wednesday |-> 3, Thursday |-> 4, Friday |-> 5,
   Saturday |-> 6, Sunday |-> 7]

\* the day numbers the headers of the text give
HeaderDays(lines) ==
  {lines[i].num : i \in {j \in 1..Len(lines) : lines[j].kind \in {"day", "both"}}}
    \cup {WeekdayNumber[lines[i].weekday] :
            i \in {j \in 1..Len(lines) : lines[j].kind \in {"weekday", "both"}}}

\* C9, amended: every Day record has the day number a header of the text
\* gives, Monday=1 .. Sunday=7 for a weekday-name header and N for a "Day N"
\* header, N being any natural number and not only one of 1..7.
C9_DayOfHeader ==
  \A k \in 1..Len(workouts) : workouts[k].day \in HeaderDays(plan_lines) /\ workouts[k].day >= 0

\* the record of a "Day 10" block was returned
C9_DayTenReturned ==
  /\ pc = "done"
  /\ \E i \in 1..Len(plan_lines) : plan_lines[i] = DayLine(10, "Arms")
  /\ \E k \in 1..Len(workouts) : workouts[k].day = 10

\* the names of the valid exercise lines among lines a..b, in their order
ValidNames(lines, a, b) ==
  [k \in 1..Len(SelectSeq(SubSeq(lines, a, b), IsValidExerciseLine)) |->
     SelectSeq(SubSeq(lines, a, b), IsValidExerciseLine)[k].name]

\* C10, amended: within every Day record the exercises are those of the valid
\* exercise lines of one stretch of the text, in the order of those lines,
\* one exercise per line: names are not made distinct.
C10_TextOrderKept ==
  \A k \in 1..Len(workouts) :
    \E a \in 1..Len(plan_lines) : \E b \in a..Len(plan_lines) :
      RecordNames(workouts[k]) = ValidNames(plan_lines, a, b)

\* C10 as stated: within every Day record the names are pairwise distinct
\* under case-insensitive comparison, and the exercises keep the order of
\* their lines.
C10_DistinctInTextOrder ==
  /\ \A k \in 1..Len(workouts) :
       \A a \in 1..Len(workouts[k].exercises) : \A b \in 1..Len(workouts[k].exercises) :
         a # b => lower(workouts[k].exercises[a].name) # lower(workouts[k].exercises[b].name)
  /\ C10_TextOrderKept

\* a Day record holds the same name twice, in two letter cases, in line order
C10_SameNameTwice ==
  /\ pc = "done"
  /\ Len(workouts) = 1
  /\ RecordNames(workouts[1]) = <<"Bench Press", "bench press">>

\* C11: every Exercise of every Day record has sets >= 1, reps >= 1 and
\* weight >= 0.
C11_PositiveSetsAndReps ==
  \A k \in 1..Len(workouts) : \A j \in 1..Len(workouts[k].exercises) :
    /\ workouts[k].exercises[j].sets >= 1
    /\ workouts[k].exercises[j].reps >= 1
    /\ workouts[k].exercises[j].weight.m >= 0

\* the number of exercises of categorized whose category is c
CategoryCount(c) ==
  Cardinality({i \in 1..Len(categorized) :
                 has_category(categorized[i]) /\ categorized[i].category = c})

\* the place in categorized of the first exercise whose category is c
FirstOfCategory(c) ==
  Leftmost({i \in 1..Len(categorized) :
              has_category(categorized[i]) /\ categorized[i].category = c})

CategoriesPresent ==
  {categorized[i].category : i \in {j \in 1..Len(categorized) : has_category(categorized[j])}}

\* C12: determine_primary_category returns the category with the highest
\* count among the exercises; of several categories with the highest count it
\* returns the one met first in the list; it returns "other" for an empty list.
C12_FirstHighestCount ==
  primary_category # NoResult =>
    /\ categorized = <<>> => primary_category[1] = "other"
    /\ CategoriesPresent # {} =>
         /\ primary_category[1] \in CategoriesPresent
         /\ \A d \in CategoriesPresent : CategoryCount(d) <= CategoryCount(primary_category[1])
         /\ \A d \in CategoriesPresent \ {primary_category[1]} :
              CategoryCount(d) = CategoryCount(primary_category[1])
                => FirstOfCategory(primary_category[1]) < FirstOfCategory(d)

\* two categories were level and the one met first was returned
C12_TieToFirst ==
  /\ categorized = <<[name |-> "Squats", category |-> "legs"],
                     [name |-> "Bench Press", category |-> "chest"]>>
  /\ primary_category = Result("legs")

\* index of the first candidate equal to x up to case, 0 if there is none
FirstSeen(x) ==
  Leftmost({i \in 1..Len(candidates) : lower(candidates[i]) = lower(x)})

\* C13: the list extract_exercises_from_text returns has no two entries equal
\* up to case, keeps the candidates in first-seen order (each entry is the
\* first candidate of its spelling, a candidate is missing only if an earlier
\* one equals it up to case or the list is full), has no entry of length <= 2
\* after trimming, and has at most 100 entries.
C13_UniqueFirstSeenCapped ==
  returned # NoResult =>
    /\ \A k \in 1..Len(returned[1]) : \A l \in (k + 1)..Len(returned[1]) :
         lower(returned[1][k]) # lower(returned[1][l])
    /\ \A k \in 1..Len(returned[1]) :
         /\ FirstSeen(returned[1][k]) # 0
         /\ returned[1][k] = candidates[FirstSeen(returned[1][k])]
         /\ k > 1 => FirstSeen(returned[1][k - 1]) < FirstSeen(returned[1][k])
         /\ Len(strip(returned[1][k])) > 2
    /\ \A i \in 1..Len(candidates) :
         \/ Len(returned[1]) = 100
         \/ \E k \in 1..Len(returned[1]) : lower(returned[1][k]) = lower(candidates[i])
    /\ Len(returned[1]) <= 100

\* more than 100 distinct candidates, one of them twice: 100 are returned, the
\* repeated one once
C13_CapReached ==
  /\ Len(candidates) > 100
  /\ lower(candidates[1]) = lower(candidates[2])
  /\ returned # NoResult
  /\ Len(returned[1]) = 100
  /\ returned[1][2] = candidates[3]

\* C14: parse_workout_plan_from_text never raises for a string input: it
\* returns a sequence for every text, the empty one for a text with no day
\* header.
C14_NeverRaises ==
  /\ pc # "raised"
  /\ (pc = "done" /\ \A i \in 1..Len(plan_lines) : plan_lines[i].kind \notin {"day", "weekday", "both"})
       => workouts = <<>>

HeaderIndexes(lines) == {i \in 1..Len(lines) : lines[i].kind \in {"day", "weekday", "both"}}

\* the last line before the header that follows line i, the last line of the
\* text if none follows
BodyLastLine(lines, i) ==
  IF \E j \in HeaderIndexes(lines) : j > i
  THEN Leftmost({j \in HeaderIndexes(lines) : j > i}) - 1
  ELSE Len(lines)

\* C17: the body of a "Day N" block runs up to the next "Day N" header, the
\* next weekday-name header or the end of the text: the valid exercise lines
\* between the header and that point are the exercises of a Day record of
\* day N.
C17_BodyRunsToNextHeader ==
  pc = "done" =>
    \A i \in DayLineIndexes(plan_lines) :
      ValidNames(plan_lines, i + 1, BodyLastLine(plan_lines, i)) # <<>> =>
        \E k \in 1..Len(workouts) :
          /\ workouts[k].day = plan_lines[i].num
          /\ RecordNames(workouts[k]) = ValidNames(plan_lines, i + 1, BodyLastLine(plan_lines, i))

\* C18: every name extract_exercises_from_text returns, from the structured
\* pass or from the regex fallback, is one _is_valid_exercise_name accepts.
C18_ReturnedNamesValid ==
  flat_result # NoResult =>
    \A k \in 1..Len(flat_result[1]) : _is_valid_exercise_name(flat_result[1][k])

\* the exercise names of a plan, in day order then within-day order
NamesOfPlan(plan) ==
  concat([k \in 1..Len(plan) |->
            [j \in 1..Len(plan[k].exercises) |-> plan[k].exercises[j].name]])

\* the names the structured pass yields: none if the parser raised
StructuredNames(outcome) == IF outcome.raised THEN <<>> ELSE NamesOfPlan(outcome.value)

CandidatesAre(names) == names # <<>> => found_exercises = names

\* C19: when parsing the text into a plan yields at least one exercise name,
\* the candidates of extract_exercises_from_text are exactly the plan's
\* exercise names in day order then within-day order: the fallback patterns
\* add nothing.
C19_StructuredPreferred ==
  flat_pc \in {"unique", "done"} =>
    CandidatesAre(StructuredNames(parse_workout_plan_from_text(flat_text)))

\* a plan of two days, and a "name - NxM" line only the fallback would take
C19_FallbackNotApplied ==
  /\ flat_pc = "done"
  /\ \E i \in 1..Len(flat_lines) : flat_lines[i].kind = "dash"
  /\ found_exercises = <<"Plank", "Bench Press">>
  /\ flat_result = Result(<<"Plank", "Bench Press">>)

IsExerciseLine(l) == l.kind = "exercise"

\* the exercises of all Day records, in order
AllExercises == concat([k \in 1..Len(workouts) |-> workouts[k].exercises])

\* the exercise ex of the line l carries the trailing dash segment of l as
\* instructions, and has no instructions if l has no such segment
InstructionsOfLine(ex, l) ==
  IF "note" \in DOMAIN l
  THEN "instructions" \in DOMAIN ex /\ ex.instructions = l.note
  ELSE "instructions" \notin DOMAIN ex

\* C20: in a text of "Day N:" blocks, where every exercise line yields an
\* Exercise, the Exercise of a line "... : <details> - <text>" carries <text>
\* as instructions, whether the name is bold or plain, and the Exercise of a
\* line without such a segment has no instructions.
C20_InstructionsKept ==
  (pc = "done" /\ IsDayBlockText(plan_lines)) =>
    /\ Len(AllExercises) = Len(SelectSeq(plan_lines, IsExerciseLine))
    /\ \A j \in 1..Len(AllExercises) :
         InstructionsOfLine(AllExercises[j], SelectSeq(plan_lines, IsExerciseLine)[j])

\* C21: each exercise line of the text yields an Exercise in at most one Day
\* record, also when the text has both "Day N" headers and weekday-name
\* headers: the records hold no more exercises than the text has valid
\* exercise lines.
C21_OneRecordPerLine ==
  pc = "done" => Len(AllExercises) <= Len(SelectSeq(plan_lines, IsValidExerciseLine))

\* C22: a POST to /create-workout-plan with a non-empty "request" and no
\* "message" reaches the chat-completion call with the enhanced weekly-plan
\* prompt as the user message and create_plan true; the endpoint answers 400
\* only when "request" is empty or missing.
C22_PlanRequestReachesChat ==
  /\ (endpoint_pc \in {"chat", "answered"} /\ get(request_body, "request", "") # ""
        /\ "message" \notin DOMAIN request_body)
       => chat_call = Result([user_message |->
                                enhanced_prompt(get(request_body, "request", ""),
                                                get(request_body, "preferences", <<>>)),
                              create_plan |-> TRUE])
  /\ response_status = 400 => get(request_body, "request", "") = ""


====
